---- MODULE Spec2Model ----
(***************************************************************************)
(* Model of the deduction engine of the CS player guessing game:           *)
(*   game/models.py   Player, DimensionFeedback, GuessFeedback, GameState  *)
(*   game/feedback.py FeedbackGenerator                                    *)
(*   game/engine.py   PlayerDatabase, GameEngine                           *)
(*   agents/base.py, agents/strategy.py, agents/api_agent.py               *)
(*                    AgentDecision, the four strategies, OllamaAgent      *)
(* Names are sequences of one-character strings so that str.lower() and    *)
(* the substring test of search_players are computed, not assumed.         *)
(***************************************************************************)
EXTENDS Integers, Sequences, FiniteSets, TLC

VARIABLES players, created, target_player, guesses, feedback_history,
          max_guesses, is_won, is_over, result, returned, possible_players,
          decision_history, games, lists

vars == <<players, created, target_player, guesses, feedback_history,
          max_guesses, is_won, is_over, result, returned, possible_players,
          decision_history, games, lists>>

\* the fields of a GameState (models.py), without the bookkeeping of the model
session == <<target_player, guesses, feedback_history, max_guesses, is_won, is_over>>

----------------------------------------------------------------------------
\* Bounds of the model

\* longest roster loaded into the PlayerDatabase
MaxRoster == 3

\* largest max_guesses handed to create_new_game
MaxBudget == 2

\* longest history handed to analyze_constraints on its own
MaxHistory == 2

----------------------------------------------------------------------------
\* models.py: FeedbackType

CORRECT == "CORRECT"
WRONG == "WRONG"
HIGHER == "HIGHER"
LOWER == "LOWER"

\* models.py: Player (source_url plays no part in the engine)
Player(n, t, c, a, r, m) ==
    [name |-> n, team |-> t, nationality |-> c, age |-> a, role |-> r,
     major_appearances |-> m]

\* the value of target_player before create_new_game has run
NoPlayer == Player(<<>>, "", "", 0, "", 0)

\* Player.get_dimension_value
GetDimensionValue(player, dimension) ==
    CASE dimension = "name" -> player.name
      [] dimension = "team" -> player.team
      [] dimension = "nationality" -> player.nationality
      [] dimension = "age" -> player.age
      [] dimension = "role" -> player.role
      [] dimension = "major_appearances" -> player.major_appearances

\* the players a roster is drawn from: the three of the scenario, a second
\* spelling of one name, and two whose age and majors exceed 40 and 20
s1mple == Player(<<"s", "1">>, "NAVI", "Ukraine", 27, "AWPer", 14)
ZywOo == Player(<<"Z", "y">>, "Vitality", "France", 24, "AWPer", 8)
NiKo == Player(<<"N", "i">>, "G2", "Bosnia", 28, "Rifler", 10)
zywoo == Player(<<"z", "y">>, "Vitality", "France", 24, "AWPer", 8)
veteran == Player(<<"v", "e">>, "NAVI", "Ukraine", 41, "Rifler", 21)
elder == Player(<<"e", "l">>, "G2", "Bosnia", 43, "IGL", 23)

\* the order in which the players file lists them
UniverseList == <<s1mple, ZywOo, NiKo, zywoo, veteran, elder>>

Universe == {UniverseList[i] : i \in DOMAIN UniverseList}

\* names a caller passes to make_guess besides those of the roster: a name in
\* another case, a fragment of a name and a name nobody has
OtherNames == {<<"z", "Y">>, <<"z">>, <<"q">>}

\* rosters: the players file cut down to at most MaxRoster of its players
Rosters ==
    {SelectSeq(UniverseList, LAMBDA p : p \in S) :
        S \in {T \in SUBSET Universe : Cardinality(T) \in 1..MaxRoster}}

Range(s) == {s[i] : i \in DOMAIN s}

----------------------------------------------------------------------------
\* str.lower() on the alphabet of the names

LowerChar(c) ==
    CASE c = "Z" -> "z"
      [] c = "Y" -> "y"
      [] c = "N" -> "n"
      [] OTHER -> c

Lower(s) == [i \in DOMAIN s |-> LowerChar(s[i])]

\* Python's  q in s  on strings
IsSubstring(q, s) ==
    \E i \in 0..(Len(s) - Len(q)) : SubSeq(s, i + 1, i + Len(q)) = q

----------------------------------------------------------------------------
\* engine.py: PlayerDatabase

\* _load_players: players_by_name[player.name.lower()] = player, so the last
\* player of the list with a given lowercased name is the one stored.
\* get_player_by_name: the index of the stored player, 0 for None
GetPlayerByName(name) ==
    LET hits == {i \in DOMAIN players : Lower(players[i].name) = Lower(name)}
    IN IF hits = {} THEN 0 ELSE CHOOSE i \in hits : \A j \in hits : j <= i

\* the names a caller passes to make_guess as they are on file
RosterNames == {players[i].name : i \in DOMAIN players}

\* search_players(query, limit): names of the first matches, in list order
SearchPlayers(query, limit) ==
    LET matches == SelectSeq(players,
                      LAMBDA p : IsSubstring(Lower(query), Lower(p.name)))
    IN SubSeq(matches, 1, IF Len(matches) < limit THEN Len(matches) ELSE limit)

----------------------------------------------------------------------------
\* feedback.py: FeedbackGenerator

\* numeric_dimensions without major_appearances
numeric_dimensions_age_only == {"age"}

numeric_dimensions == {"age", "major_appearances"}
categorical_dimensions == {"name", "team", "nationality", "role"}

\* the order in which generate_feedback and filter_candidates walk the dimensions
DimensionOrder == <<"name", "team", "nationality", "age", "role", "major_appearances">>
Dimensions == Range(DimensionOrder)

\* _compare_dimension with the two directions exchanged
CompareDimensionSwapped(dimension, guess_value, target_value) ==
    [dimension |-> dimension,
     guess_value |-> guess_value,
     target_value |-> target_value,
     feedback_type |->
        IF guess_value = target_value THEN CORRECT
        ELSE IF dimension \in numeric_dimensions
             THEN IF guess_value < target_value THEN LOWER ELSE HIGHER
             ELSE WRONG]

\* _compare_dimension
CompareDimension(dimension, guess_value, target_value) ==
    [dimension |-> dimension,
     guess_value |-> guess_value,
     target_value |-> target_value,
     feedback_type |->
        IF guess_value = target_value THEN CORRECT
        ELSE IF dimension \in numeric_dimensions
             THEN IF guess_value < target_value THEN HIGHER ELSE LOWER
             ELSE WRONG]

\* generate_feedback with any() in place of all()
GenerateFeedbackAny(guess_player, target) ==
    LET dimension_feedback ==
            [d \in Dimensions |->
                CompareDimension(d, GetDimensionValue(guess_player, d),
                                    GetDimensionValue(target, d))]
    IN [guess_player |-> guess_player,
        target_player |-> target,
        dimension_feedback |-> dimension_feedback,
        is_correct |-> \E d \in Dimensions :
                          dimension_feedback[d].feedback_type = CORRECT]

\* generate_feedback
GenerateFeedback(guess_player, target) ==
    LET dimension_feedback ==
            [d \in Dimensions |->
                CompareDimension(d, GetDimensionValue(guess_player, d),
                                    GetDimensionValue(target, d))]
    IN [guess_player |-> guess_player,
        target_player |-> target,
        dimension_feedback |-> dimension_feedback,
        is_correct |-> \A d \in Dimensions :
                          dimension_feedback[d].feedback_type = CORRECT]

\* the bounds analyze_constraints starts from
AgeMin == 16
AgeMax == 40
MajorsMin == 0
MajorsMax == 20

Max2(a, b) == IF a >= b THEN a ELSE b
Min2(a, b) == IF a <= b THEN a ELSE b

\* analyze_constraints: the dictionary it starts from.  A missing "required"
\* key is the empty sequence, a present one the one-element sequence
InitialConstraints ==
    [d \in Dimensions |->
        IF d = "age"
        THEN [min |-> AgeMin, max |-> AgeMax, excluded |-> {}, required |-> <<>>]
        ELSE IF d = "major_appearances"
        THEN [min |-> MajorsMin, max |-> MajorsMax, excluded |-> {}, required |-> <<>>]
        ELSE [excluded |-> {}, required |-> <<>>]]

\* the body of the inner loop with  excluded = {value}  in place of  excluded.add(value)
ApplyDimFeedbackReplace(constraints, dimension, dim_feedback) ==
    IF dim_feedback.feedback_type = CORRECT
    THEN [constraints EXCEPT ![dimension].required = <<dim_feedback.target_value>>]
    ELSE IF dim_feedback.feedback_type = WRONG
    THEN [constraints EXCEPT ![dimension].excluded = {dim_feedback.guess_value}]
    ELSE IF dim_feedback.feedback_type = HIGHER
    THEN IF dimension = "age"
         THEN [constraints EXCEPT !["age"].min = Max2(@, dim_feedback.guess_value + 1)]
         ELSE IF dimension = "major_appearances"
         THEN [constraints EXCEPT
                 !["major_appearances"].min = Max2(@, dim_feedback.guess_value + 1)]
         ELSE constraints
    ELSE IF dim_feedback.feedback_type = LOWER
    THEN IF dimension = "age"
         THEN [constraints EXCEPT !["age"].max = Min2(@, dim_feedback.guess_value - 1)]
         ELSE IF dimension = "major_appearances"
         THEN [constraints EXCEPT
                 !["major_appearances"].max = Min2(@, dim_feedback.guess_value - 1)]
         ELSE constraints
    ELSE constraints

\* the body of the inner loop with a bound assigned from the guess alone, not
\* combined with the bound found so far
ApplyDimFeedbackLastBound(constraints, dimension, dim_feedback) ==
    IF dim_feedback.feedback_type = CORRECT
    THEN [constraints EXCEPT ![dimension].required = <<dim_feedback.target_value>>]
    ELSE IF dim_feedback.feedback_type = WRONG
    THEN [constraints EXCEPT ![dimension].excluded = @ \cup {dim_feedback.guess_value}]
    ELSE IF dim_feedback.feedback_type = HIGHER
    THEN IF dimension \in {"age", "major_appearances"}
         THEN [constraints EXCEPT ![dimension].min = dim_feedback.guess_value + 1]
         ELSE constraints
    ELSE IF dim_feedback.feedback_type = LOWER
    THEN IF dimension \in {"age", "major_appearances"}
         THEN [constraints EXCEPT ![dimension].max = dim_feedback.guess_value - 1]
         ELSE constraints
    ELSE constraints

\* the body of the inner loop excluding the target's value on a WRONG verdict
ApplyDimFeedbackExcludeTarget(constraints, dimension, dim_feedback) ==
    IF dim_feedback.feedback_type = CORRECT
    THEN [constraints EXCEPT ![dimension].required = <<dim_feedback.target_value>>]
    ELSE IF dim_feedback.feedback_type = WRONG
    THEN [constraints EXCEPT ![dimension].excluded = @ \cup {dim_feedback.target_value}]
    ELSE IF dim_feedback.feedback_type = HIGHER
    THEN IF dimension \in {"age", "major_appearances"}
         THEN [constraints EXCEPT ![dimension].min = Max2(@, dim_feedback.guess_value + 1)]
         ELSE constraints
    ELSE IF dim_feedback.feedback_type = LOWER
    THEN IF dimension \in {"age", "major_appearances"}
         THEN [constraints EXCEPT ![dimension].max = Min2(@, dim_feedback.guess_value - 1)]
         ELSE constraints
    ELSE constraints

\* analyze_constraints: the body of the inner loop, for one dim_feedback
ApplyDimFeedback(constraints, dimension, dim_feedback) ==
    IF dim_feedback.feedback_type = CORRECT
    THEN [constraints EXCEPT ![dimension].required = <<dim_feedback.target_value>>]
    ELSE IF dim_feedback.feedback_type = WRONG
    THEN [constraints EXCEPT ![dimension].excluded = @ \cup {dim_feedback.guess_value}]
    ELSE IF dim_feedback.feedback_type = HIGHER
    THEN IF dimension = "age"
         THEN [constraints EXCEPT !["age"].min = Max2(@, dim_feedback.guess_value + 1)]
         ELSE IF dimension = "major_appearances"
         THEN [constraints EXCEPT
                 !["major_appearances"].min = Max2(@, dim_feedback.guess_value + 1)]
         ELSE constraints
    ELSE IF dim_feedback.feedback_type = LOWER
    THEN IF dimension = "age"
         THEN [constraints EXCEPT !["age"].max = Min2(@, dim_feedback.guess_value - 1)]
         ELSE IF dimension = "major_appearances"
         THEN [constraints EXCEPT
                 !["major_appearances"].max = Min2(@, dim_feedback.guess_value - 1)]
         ELSE constraints
    ELSE constraints

\* analyze_constraints: the inner loop over feedback.dimension_feedback.items(),
\* which iterates in insertion order
RECURSIVE ApplyFeedback(_, _, _)
ApplyFeedback(constraints, feedback, k) ==
    IF k > Len(DimensionOrder) THEN constraints
    ELSE ApplyFeedback(
            ApplyDimFeedback(constraints, DimensionOrder[k],
                             feedback.dimension_feedback[DimensionOrder[k]]),
            feedback, k + 1)

\* the outer loop with the dictionary built afresh for every feedback, so that
\* only the last feedback is left in it
FoldHistoryRestart(constraints, history) ==
    IF history = <<>> THEN constraints
    ELSE ApplyFeedback(InitialConstraints, history[Len(history)], 1)

\* analyze_constraints: the outer loop over the history, from constraints on
RECURSIVE FoldHistory(_, _)
FoldHistory(constraints, history) ==
    IF history = <<>> THEN constraints
    ELSE FoldHistory(ApplyFeedback(constraints, Head(history), 1), Tail(history))

\* analyze_constraints
AnalyzeConstraints(history) == FoldHistory(InitialConstraints, history)

\* the checks for one player on one dimension with the range test exclusive
PassesDimensionExclusive(player, constraints, dimension) ==
    LET value == GetDimensionValue(player, dimension)
        dim_constraints == constraints[dimension]
    IN /\ (dim_constraints.required # <<>> => value = dim_constraints.required[1])
       /\ value \notin dim_constraints.excluded
       /\ (dimension \in {"age", "major_appearances"} =>
             ~(value <= dim_constraints.min \/ value >= dim_constraints.max))

\* filter_candidates: the checks made for one player on one dimension
PassesDimension(player, constraints, dimension) ==
    LET value == GetDimensionValue(player, dimension)
        dim_constraints == constraints[dimension]
    IN /\ (dim_constraints.required # <<>> => value = dim_constraints.required[1])
       /\ value \notin dim_constraints.excluded
       /\ (dimension \in {"age", "major_appearances"} =>
             ~(value < dim_constraints.min \/ value > dim_constraints.max))

\* filter_candidates
FilterCandidates(roster, constraints) ==
    SelectSeq(roster,
        LAMBDA player : \A d \in Dimensions : PassesDimension(player, constraints, d))

----------------------------------------------------------------------------
\* models.py: GameState

\* guess_count
GuessCount == Len(guesses)

\* remaining_guesses, evaluated after the step (make_guess reads it after add_guess)
RemainingGuessesAfter == Max2(0, max_guesses - Len(guesses'))

\* add_guess with the budget test ahead of the win test
AddGuessBudgetFirst(player, feedback) ==
    /\ guesses' = Append(guesses, player)
    /\ feedback_history' = Append(feedback_history, feedback)
    /\ IF Len(guesses') >= max_guesses
       THEN is_over' = TRUE /\ is_won' = is_won
       ELSE IF feedback.is_correct
            THEN is_won' = TRUE /\ is_over' = TRUE
            ELSE is_over' = is_over /\ is_won' = is_won

\* add_guess with a correct guess setting is_won alone
AddGuessWonNotOver(player, feedback) ==
    /\ guesses' = Append(guesses, player)
    /\ feedback_history' = Append(feedback_history, feedback)
    /\ IF feedback.is_correct
       THEN is_won' = TRUE /\ is_over' = is_over
       ELSE IF Len(guesses') >= max_guesses
            THEN is_over' = TRUE /\ is_won' = is_won
            ELSE is_over' = is_over /\ is_won' = is_won

\* add_guess
AddGuess(player, feedback) ==
    /\ guesses' = Append(guesses, player)
    /\ feedback_history' = Append(feedback_history, feedback)
    /\ IF feedback.is_correct
       THEN is_won' = TRUE /\ is_over' = TRUE
       ELSE IF Len(guesses') >= max_guesses
            THEN is_over' = TRUE /\ is_won' = is_won
            ELSE is_over' = is_over /\ is_won' = is_won

----------------------------------------------------------------------------
\* engine.py: GameEngine

\* what make_guess returns: success and the message, kept as its kind and the
\* values formatted into it
Message(kind, names, count) == [kind |-> kind, names |-> names, count |-> count]
NoResult == [success |-> FALSE, message |-> Message("none", <<>>, <<>>)]

\* create_new_game, with the target chosen from the database (random or given)
CreateNewGame(budget, target) ==
    /\ ~created
    /\ created' = TRUE
    /\ target_player' = target
    /\ guesses' = <<>>
    /\ feedback_history' = <<>>
    /\ max_guesses' = budget
    /\ is_won' = FALSE
    /\ is_over' = FALSE
    /\ UNCHANGED <<players, games, lists, result, returned, possible_players, decision_history>>

\* make_guess, lines 170-171: the game is over
MakeGuessOver ==
    /\ result' = [success |-> FALSE, message |-> Message("already_over", <<>>, <<>>)]
    /\ UNCHANGED session

\* the not-found branch recording the failed lookup as a guess
MakeGuessNotFoundCounted(player_name) ==
    /\ result' = [success |-> FALSE,
                  message |-> Message("not_found_in_database", <<player_name>>, <<>>)]
    /\ guesses' = Append(guesses, NoPlayer)
    /\ UNCHANGED <<target_player, feedback_history, max_guesses, is_won, is_over>>

\* make_guess, lines 175-182: the name is not in the database
MakeGuessNotFound(player_name) ==
    LET similar_players == SearchPlayers(player_name, 5)
    IN /\ result' =
            [success |-> FALSE,
             message |->
                IF similar_players # <<>>
                THEN Message("not_found_did_you_mean",
                             <<player_name>> \o
                                [i \in DOMAIN similar_players |->
                                    similar_players[i].name],
                             <<>>)
                ELSE Message("not_found_in_database", <<player_name>>, <<>>)]
       /\ UNCHANGED session

\* make_guess, lines 184-200: feedback, add_guess and the response message
MakeGuessAccepted(guessed_player) ==
    LET feedback == GenerateFeedback(guessed_player, target_player)
    IN /\ AddGuess(guessed_player, feedback)
       /\ result' =
            [success |-> TRUE,
             message |->
                IF feedback.is_correct
                THEN Message("congratulations", <<target_player.name>>,
                             <<Len(guesses')>>)
                ELSE IF is_over'
                THEN Message("game_over", <<target_player.name>>, <<>>)
                ELSE Message("guesses_remaining", <<>>,
                             <<Len(guesses'), max_guesses, RemainingGuessesAfter>>)]
       /\ UNCHANGED <<target_player, max_guesses>>

\* make_guess without the test of is_over
MakeGuessNoOverCheck(player_name) ==
    /\ created
    /\ IF GetPlayerByName(player_name) = 0
       THEN MakeGuessNotFound(player_name)
       ELSE MakeGuessAccepted(players[GetPlayerByName(player_name)])
    /\ UNCHANGED <<players, games, lists, created, returned, possible_players, decision_history>>

\* make_guess
MakeGuess(player_name) ==
    /\ created
    /\ IF is_over THEN MakeGuessOver
       ELSE IF GetPlayerByName(player_name) = 0
            THEN MakeGuessNotFound(player_name)
            ELSE MakeGuessAccepted(players[GetPlayerByName(player_name)])
    /\ UNCHANGED <<players, games, lists, created, returned, possible_players, decision_history>>

\* get_possible_players
GetPossiblePlayers ==
    IF feedback_history = <<>> THEN players
    ELSE FilterCandidates(players, AnalyzeConstraints(feedback_history))

----------------------------------------------------------------------------
\* Several GameState objects of one engine.  games holds the objects by the
\* name the caller keeps them under, lists the list objects they refer to: a
\* GameState holds its guesses and its feedback_history by reference.

SessionIds == {"a", "b"}

\* no GameState under this name yet
NoGame ==
    [target_player |-> NoPlayer, guesses |-> 0, feedback_history |-> 0,
     max_guesses |-> 0, is_won |-> FALSE, is_over |-> FALSE]

NoGames == [id \in SessionIds |-> NoGame]

----------------------------------------------------------------------------
\* The engine after construction over some roster, before any game exists

Init ==
    /\ players \in Rosters
    /\ created = FALSE
    /\ target_player = NoPlayer
    /\ guesses = <<>>
    /\ feedback_history = <<>>
    /\ max_guesses = 0
    /\ is_won = FALSE
    /\ is_over = FALSE
    /\ result = NoResult
    /\ returned = <<>>
    /\ possible_players = <<>>
    /\ decision_history = <<>>
    /\ games = NoGames
    /\ lists = <<>>

Next ==
    \/ \E budget \in 0..MaxBudget, i \in DOMAIN players :
          CreateNewGame(budget, players[i])
    \/ \E player_name \in RosterNames \cup OtherNames : MakeGuess(player_name)

Spec == Init /\ [][Next]_vars

----------------------------------------------------------------------------
\* analyze_constraints on its own: a FeedbackGenerator handed any list of
\* GuessFeedback values, each the feedback of some guess against some target

\* the players the feedback of these lists is about: two with age and majors
\* inside 16..40 and 0..20 and two outside
FoldPlayers == {s1mple, NiKo, veteran, elder}

Feedbacks == {GenerateFeedback(g, t) : <<g, t>> \in FoldPlayers \X FoldPlayers}

RECURSIVE HistoriesOfLen(_)
HistoriesOfLen(n) ==
    IF n = 0 THEN {<<>>}
    ELSE {Append(h, f) : <<h, f>> \in HistoriesOfLen(n - 1) \X Feedbacks}

Histories == UNION {HistoriesOfLen(n) : n \in 0..MaxHistory}

ScenarioRoster == <<s1mple, ZywOo, NiKo>>

InitFold ==
    /\ players = ScenarioRoster
    /\ created = FALSE
    /\ target_player = NoPlayer
    /\ guesses = <<>>
    /\ feedback_history \in Histories
    /\ max_guesses = 0
    /\ is_won = FALSE
    /\ is_over = FALSE
    /\ result = NoResult
    /\ returned = <<>>
    /\ possible_players = <<>>
    /\ decision_history = <<>>
    /\ games = NoGames
    /\ lists = <<>>

\* a call of analyze_constraints(feedback_history), its return value kept
Analyze ==
    /\ returned' = <<AnalyzeConstraints(feedback_history)>>
    /\ UNCHANGED <<players, games, lists, created, session, result, possible_players, decision_history>>

NextFold == Analyze

SpecFold == InitFold /\ [][NextFold]_vars

\* the orders a history can be handed over in
Reorderings(history) ==
    {[i \in DOMAIN history |-> history[f[i]]] : f \in Permutations(DOMAIN history)}

----------------------------------------------------------------------------
\* agents/base.py, agents/strategy.py: the scoring strategies

\* longest list of possible players handed to a strategy or an agent
MaxCandidates == 3

\* floats are kept in millionths: confidences, entropies and scores
Unit == 1000000

\* the lists a caller passes as possible_players: any selection of the
\* players file, the empty one included
CandidateLists ==
    {SelectSeq(UniverseList, LAMBDA p : p \in S) :
        S \in {T \in SUBSET Universe : Cardinality(T) \in 0..MaxCandidates}}

\* the default names the fallback decisions carry
UnknownName == <<"u", "n", "k", "n", "o", "w", "n">>
S1mpleName == s1mple.name

\* the text of a decision's reasoning: its fixed words, the names and numbers
\* formatted into it and the text of the error it quotes
Reasoning(text, names, numbers, error) ==
    [text |-> text, names |-> names, numbers |-> numbers, error |-> error]

\* base.py: AgentDecision (decision_time is a clock reading and is left out)
AgentDecision(player_name, confidence, reasoning, strategy_used, metadata) ==
    [player_name |-> player_name, confidence |-> confidence,
     reasoning |-> reasoning, strategy_used |-> strategy_used,
     metadata |-> metadata]

\* Python's  a > b  on two tuples of integers of one length
TupleGreater(a, b) ==
    \E k \in DOMAIN a :
        a[k] > b[k] /\ \A l \in 1..(k - 1) : a[l] = b[l]

\* the index of the last key no other exceeds: what a loop replacing its best
\* on a greater or equal score ends with
LastMax(keys) ==
    CHOOSE i \in DOMAIN keys :
        /\ \A j \in DOMAIN keys : ~TupleGreater(keys[j], keys[i])
        /\ \A j \in (i + 1)..Len(keys) : TupleGreater(keys[i], keys[j])

\* the index of the first key no other exceeds: what max(list, key=...)
\* returns, what a loop replacing its best on a strictly greater score ends
\* with, and the head of a stable sort in descending order.  The keys are
\* tuples of integers, one for each element of the list.
FirstMax(keys) ==
    CHOOSE i \in DOMAIN keys :
        /\ \A j \in DOMAIN keys : ~TupleGreater(keys[j], keys[i])
        /\ \A j \in 1..(i - 1) : TupleGreater(keys[i], keys[j])

\* -p * log2(p) for p = count / total, in millionths of a bit
EntropyTerm(count, total) ==
    CASE count = total -> 0
      [] 2 * count = total -> 500000
      [] 3 * count = total -> 528321
      [] 3 * count = 2 * total -> 389975
      [] 4 * count = total -> 500000
      [] 4 * count = 3 * total -> 311278

\* sum(1 for v in values if v < / == / > value)
CountLower(values, value) == Cardinality({i \in DOMAIN values : values[i] < value})
CountEqual(values, value) == Cardinality({i \in DOMAIN values : values[i] = value})
CountHigher(values, value) == Cardinality({i \in DOMAIN values : values[i] > value})

\* [p.get_dimension_value(dimension) for p in possible_players]
DimensionValues(possible, dimension) ==
    [i \in DOMAIN possible |-> GetDimensionValue(possible[i], dimension)]

\* InformationTheoryStrategy._calculate_categorical_entropy
CalculateCategoricalEntropy(candidate_value, possible, dimension) ==
    LET matches ==
            CountEqual(DimensionValues(possible, dimension), candidate_value)
        non_matches == Len(possible) - matches
        total == Len(possible)
    IN IF matches = 0 \/ non_matches = 0 THEN 0
       ELSE EntropyTerm(matches, total) + EntropyTerm(non_matches, total)

\* the numeric entropy with the two outer buckets merged into one
CalculateNumericEntropyTwoWay(candidate_value, possible, dimension) ==
    LET equal_count ==
            CountEqual(DimensionValues(possible, dimension), candidate_value)
        other_count == Len(possible) - equal_count
        total == Len(possible)
    IN IF total = 0 THEN 0
       ELSE (IF equal_count > 0 THEN EntropyTerm(equal_count, total) ELSE 0)
            + (IF other_count > 0 THEN EntropyTerm(other_count, total) ELSE 0)

\* InformationTheoryStrategy._calculate_numeric_entropy
CalculateNumericEntropy(candidate_value, possible, dimension) ==
    LET values == DimensionValues(possible, dimension)
        lower_count == CountLower(values, candidate_value)
        equal_count == CountEqual(values, candidate_value)
        higher_count == CountHigher(values, candidate_value)
        total == Len(values)
    IN IF total = 0 THEN 0
       ELSE (IF lower_count > 0 THEN EntropyTerm(lower_count, total) ELSE 0)
            + (IF equal_count > 0 THEN EntropyTerm(equal_count, total) ELSE 0)
            + (IF higher_count > 0 THEN EntropyTerm(higher_count, total) ELSE 0)

\* InformationTheoryStrategy._calculate_dimension_entropy
CalculateDimensionEntropy(candidate, possible, dimension) ==
    IF dimension \in {"age", "major_appearances"}
    THEN CalculateNumericEntropy(GetDimensionValue(candidate, dimension),
                                 possible, dimension)
    ELSE CalculateCategoricalEntropy(GetDimensionValue(candidate, dimension),
                                     possible, dimension)

\* the dimensions InformationTheoryStrategy.calculate_score adds up
ScoredDimensions == <<"team", "nationality", "age", "role", "major_appearances">>

RECURSIVE TotalEntropy(_, _, _)
TotalEntropy(player, possible, k) ==
    IF k = 0 THEN 0
    ELSE TotalEntropy(player, possible, k - 1)
         + CalculateDimensionEntropy(player, possible, ScoredDimensions[k])

\* InformationTheoryStrategy.calculate_score
InformationTheoryCalculateScore(player, possible) ==
    TotalEntropy(player, possible, Len(ScoredDimensions)) \div Len(ScoredDimensions)

\* InformationTheoryStrategy._make_fallback_decision
InformationTheoryFallback ==
    AgentDecision(UnknownName, 0,
        Reasoning("No possible players available for information gain calculation",
                  <<>>, <<>>, ""),
        "Information-Theory", [fallback |-> TRUE])

\* InformationTheoryStrategy.make_decision
InformationTheoryDecision(possible) ==
    IF possible = <<>> THEN InformationTheoryFallback
    ELSE LET best ==
                FirstMax([i \in DOMAIN possible |->
                            <<InformationTheoryCalculateScore(possible[i], possible)>>])
             best_score == InformationTheoryCalculateScore(possible[best], possible)
         IN AgentDecision(possible[best].name,
                Min2((9 * Unit) \div 10, (3 * Unit) \div 10 + (best_score * 6) \div 10),
                Reasoning("Selected for maximum information gain",
                          <<possible[best].name>>, <<best_score, Len(possible)>>, ""),
                "Information-Theory",
                [information_gain |-> best_score,
                 possible_players_count |-> Len(possible)])

\* PopularPlayerStrategy._make_fallback_decision
PopularPlayerFallback ==
    AgentDecision(S1mpleName, (3 * Unit) \div 10,
        Reasoning("Fallback to well-known player s1mple", <<>>, <<>>, ""),
        "Popular-Player", [fallback |-> TRUE])

\* PopularPlayerStrategy.make_decision
PopularPlayerDecision(possible) ==
    IF possible = <<>> THEN PopularPlayerFallback
    ELSE LET best ==
                FirstMax([i \in DOMAIN possible |->
                            <<possible[i].major_appearances, -possible[i].age>>])
             best_player == possible[best]
         IN AgentDecision(best_player.name,
                Min2((9 * Unit) \div 10,
                     (3 * Unit) \div 10
                        + (best_player.major_appearances * 6 * Unit) \div 200),
                Reasoning("Selected as a well-known player",
                          <<best_player.name>>, <<best_player.major_appearances>>, ""),
                "Popular-Player",
                [major_appearances |-> best_player.major_appearances,
                 age |-> best_player.age])

\* ConstraintStrategy.calculate_score, in thirtieths
ConstraintCalculateScore(player) ==
    15 + Min2(9, 2 * player.major_appearances)
       + (IF 20 <= player.age /\ player.age <= 30 THEN 3 ELSE 0)
       + (IF player.nationality \in
                {"Denmark", "Sweden", "Ukraine", "Russia", "France", "Brazil"}
          THEN 3 ELSE 0)

\* the score of ConstraintStrategy._choose_diverse_starter, in tenths
DiverseScore(player) ==
    (IF 3 <= player.major_appearances /\ player.major_appearances <= 10
        THEN 3 ELSE 0)
    + (IF 23 <= player.age /\ player.age <= 27 THEN 2 ELSE 0)
    + (IF player.nationality \in {"Denmark", "Sweden", "France", "Ukraine"}
        THEN 2 ELSE 0)
    + (IF player.role \in {"AWPer", "Rifler"} THEN 1 ELSE 0)

\* ConstraintStrategy._choose_diverse_starter
ChooseDiverseStarter(possible) ==
    possible[FirstMax([i \in DOMAIN possible |-> <<DiverseScore(possible[i])>>])]

\* ConstraintStrategy._make_fallback_decision
ConstraintFallback ==
    AgentDecision(UnknownName, 0,
        Reasoning("No players satisfy the current constraints", <<>>, <<>>, ""),
        "Constraint-Based", [fallback |-> TRUE])

\* ConstraintStrategy.make_decision
ConstraintDecision(history, possible) ==
    IF possible = <<>> THEN ConstraintFallback
    ELSE LET metadata ==
                [constraints_applied |-> Len(history),
                 remaining_candidates |-> Len(possible)]
         IN IF history = <<>>
            THEN LET best_player == ChooseDiverseStarter(possible)
                 IN AgentDecision(best_player.name, (6 * Unit) \div 10,
                        Reasoning("Selected as a diverse starting guess",
                                  <<best_player.name>>, <<>>, ""),
                        "Constraint-Based", metadata)
            ELSE LET best_player ==
                        possible[FirstMax([i \in DOMAIN possible |->
                                    <<ConstraintCalculateScore(possible[i])>>])]
                 IN AgentDecision(best_player.name,
                        Min2((9 * Unit) \div 10,
                             (4 * Unit) \div 10 + (5 * Unit) \div (10 * Len(possible))),
                        Reasoning("Selected based on constraints from previous feedback",
                                  <<best_player.name>>,
                                  <<Len(history), best_player.age,
                                    best_player.major_appearances, Len(possible)>>,
                                  ""),
                        "Constraint-Based", metadata)

\* RandomStrategy._make_fallback_decision
RandomFallback ==
    AgentDecision(S1mpleName, Unit \div 10,
        Reasoning("Random fallback to s1mple", <<>>, <<>>, ""),
        "Random", [fallback |-> TRUE])

\* RandomStrategy.make_decision, the draw of random.choice being  choice
RandomDecision(possible, choice) ==
    IF possible = <<>> THEN RandomFallback
    ELSE AgentDecision(possible[choice].name, Unit \div Len(possible),
            Reasoning("Randomly selected", <<possible[choice].name>>,
                      <<Len(possible)>>, ""),
            "Random", [possible_count |-> Len(possible)])

----------------------------------------------------------------------------
\* agents/api_agent.py: OllamaAgent

\* most decisions one agent records in its _decision_history
MaxDecisions == 1

\* str.strip() on texts whose only whitespace is the blank
RECURSIVE LStrip(_)
LStrip(s) == IF s # <<>> /\ Head(s) = " " THEN LStrip(Tail(s)) ELSE s

RECURSIVE RStrip(_)
RStrip(s) ==
    IF s # <<>> /\ s[Len(s)] = " " THEN RStrip(SubSeq(s, 1, Len(s) - 1)) ELSE s

Strip(s) == RStrip(LStrip(s))

\* what the model answered, as the text behind each of its three labels up
\* to the end of the line (of the response for REASONING): <<>> when the
\* label is missing, <<text>> otherwise
Response(player, confidence, reasoning) ==
    [player |-> player, confidence |-> confidence, reasoning |-> reasoning]

\* result.get("response", "") of an answer without that key
EmptyResponse == Response(<<>>, <<>>, <<>>)

\* group 1 of  PLAYER:\s*(.+)  on a non-empty rest of line: the blanks are
\* skipped, and when nothing else follows the last blank is the match
PlayerGroup(text) ==
    IF LStrip(text) # <<>> THEN LStrip(text) ELSE <<text[Len(text)]>>

DigitChars == {"0", "1", "2", "3", "4", "5", "6", "7", "8", "9"}

RECURSIVE NumberPrefix(_)
NumberPrefix(s) ==
    IF s # <<>> /\ Head(s) \in DigitChars \cup {"."}
    THEN <<Head(s)>> \o NumberPrefix(Tail(s))
    ELSE <<>>

\* group 1 of  CONFIDENCE:\s*([\d.]+) , <<>> when the pattern does not match
ConfidenceGroup(text) == NumberPrefix(LStrip(text))

DigitValue(c) ==
    CASE c = "0" -> 0 [] c = "1" -> 1 [] c = "2" -> 2 [] c = "3" -> 3
      [] c = "4" -> 4 [] c = "5" -> 5 [] c = "6" -> 6 [] c = "7" -> 7
      [] c = "8" -> 8 [] c = "9" -> 9

RECURSIVE DigitsValue(_)
DigitsValue(s) ==
    IF s = <<>> THEN 0
    ELSE 10 * DigitsValue(SubSeq(s, 1, Len(s) - 1)) + DigitValue(s[Len(s)])

RECURSIVE Pow10(_)
Pow10(n) == IF n = 0 THEN 1 ELSE 10 * Pow10(n - 1)

Dots(s) == {i \in DOMAIN s : s[i] = "."}

\* float() accepts a text of digits and dots when it has one dot at most and
\* a digit at least; otherwise it raises ValueError
IsFloat(s) == Cardinality(Dots(s)) <= 1 /\ Cardinality(Dots(s)) < Len(s)

\* float() of such a text, in millionths
Float(s) ==
    LET dot == IF Dots(s) = {} THEN Len(s) + 1 ELSE CHOOSE i \in Dots(s) : TRUE
        whole == SubSeq(s, 1, dot - 1)
        fraction == SubSeq(s, dot + 1, Min2(Len(s), dot + 6))
    IN DigitsValue(whole) * Unit + DigitsValue(fraction) * Pow10(6 - Len(fraction))

\* where a loop over the list returns: the first index whose test holds,
\* 0 when the loop runs to its end
FirstIndex(tests) ==
    IF \E i \in DOMAIN tests : tests[i]
    THEN CHOOSE i \in DOMAIN tests : tests[i] /\ \A j \in 1..(i - 1) : ~tests[j]
    ELSE 0

\* _find_closest_player without the case-insensitive and substring passes
FindClosestPlayerFirstOnly(target_name, valid_names) ==
    IF valid_names # <<>> THEN valid_names[1] ELSE UnknownName

\* OllamaAgent._find_closest_player
FindClosestPlayer(target_name, valid_names) ==
    LET target_lower == Lower(target_name)
        exact == FirstIndex([i \in DOMAIN valid_names |->
                                Lower(valid_names[i]) = target_lower])
        part == FirstIndex([i \in DOMAIN valid_names |->
                                \/ IsSubstring(target_lower, Lower(valid_names[i]))
                                \/ IsSubstring(Lower(valid_names[i]), target_lower)])
    IN IF exact # 0 THEN valid_names[exact]
       ELSE IF part # 0 THEN valid_names[part]
       ELSE IF valid_names # <<>> THEN valid_names[1] ELSE UnknownName

\* the exception _parse_response raises on this response, "" when it returns
ParseError(response) ==
    IF response.player = <<>>
    THEN "Could not extract player name from response"
    ELSE IF /\ response.confidence # <<>>
            /\ ConfidenceGroup(response.confidence[1]) # <<>>
            /\ ~IsFloat(ConfidenceGroup(response.confidence[1]))
         THEN "could not convert string to float"
         ELSE ""

\* OllamaAgent._parse_response, when it raises nothing
ParseResponse(response, possible) ==
    LET parsed_name == Strip(PlayerGroup(response.player[1]))
        confidence ==
            IF /\ response.confidence # <<>>
               /\ ConfidenceGroup(response.confidence[1]) # <<>>
            THEN Float(ConfidenceGroup(response.confidence[1]))
            ELSE Unit \div 2
        valid_names == [i \in DOMAIN possible |-> possible[i].name]
        player_name ==
            IF parsed_name \in Range(valid_names) THEN parsed_name
            ELSE FindClosestPlayer(parsed_name, valid_names)
    IN AgentDecision(player_name, confidence,
            Reasoning(IF response.reasoning # <<>> THEN "REASONING of the response"
                      ELSE "No reasoning provided",
                      [i \in DOMAIN response.reasoning |-> Strip(response.reasoning[i])],
                      <<>>, ""),
            "Ollama-LLM",
            [model |-> "llama3:8b", raw_response |-> response])

\* _make_fallback_decision choosing the first possible player
OllamaFallbackFirst(possible, error) ==
    IF possible # <<>>
    THEN AgentDecision(possible[1].name, (3 * Unit) \div 10,
            Reasoning("Fallback decision due to API error", <<>>, <<>>, error),
            "Fallback-Heuristic", [error |-> error, fallback |-> TRUE])
    ELSE AgentDecision(UnknownName, 0,
            Reasoning("No possible players available", <<>>, <<>>, error),
            "Error-Fallback", [error |-> error, fallback |-> TRUE])

\* OllamaAgent._make_fallback_decision
OllamaFallback(possible, error) ==
    IF possible # <<>>
    THEN LET chosen ==
                FirstMax([i \in DOMAIN possible |-> <<possible[i].major_appearances>>])
         IN AgentDecision(possible[chosen].name, (3 * Unit) \div 10,
                Reasoning("Fallback decision due to API error", <<>>, <<>>, error),
                "Fallback-Heuristic", [error |-> error, fallback |-> TRUE])
    ELSE AgentDecision(UnknownName, 0,
            Reasoning("No possible players available", <<>>, <<>>, error),
            "Error-Fallback", [error |-> error, fallback |-> TRUE])

\* what _call_ollama does: it raises RuntimeError (error is its text) or
\* returns the response of the model
Outcome(error, response) == [error |-> error, response |-> response]

\* OllamaAgent.make_decision past the call: parse, fall back on any exception
OllamaDecision(outcome, possible) ==
    IF outcome.error # "" THEN OllamaFallback(possible, outcome.error)
    ELSE IF ParseError(outcome.response) # ""
         THEN OllamaFallback(possible, ParseError(outcome.response))
         ELSE ParseResponse(outcome.response, possible)

----------------------------------------------------------------------------
\* The strategies and the agent at work: a session in progress, a list of
\* possible players handed in by the caller

\* a call and what it returned
Call(name, args, value) == [call |-> name, args |-> args, value |-> value]

\* the answers of the model: a listed name, a name in another case, a part
\* of a name, a name with blanks around it, no name; a confidence inside and
\* outside 0..1, one that is no number, none
Responses ==
    {Response(<<<<"s", "1">>>>, <<<<"0", ".", "9">>>>, <<<<"o", "k", " ">>>>),
     Response(<<<<"z", "y">>>>, <<>>, <<>>),
     Response(<<<<"Z", "Y">>>>, <<<<"1">>>>, <<>>),
     Response(<<<<"y">>>>, <<<<"7">>>>, <<>>),
     Response(<<<<" ", "N", "i", "x", " ">>>>, <<<<" ", "0", ".", "2", "5">>>>, <<>>),
     Response(<<<<"q">>>>, <<<<"1", ".", "5">>>>, <<>>),
     Response(<<<<" ">>>>, <<<<"0">>>>, <<>>),
     Response(<<>>, <<<<"0", ".", "5">>>>, <<<<"o", "k">>>>),
     Response(<<<<"s", "1">>>>, <<<<"1", ".", "2", ".", "3">>>>, <<>>),
     Response(<<<<"e", "l">>>>, <<<<".">>>>, <<>>),
     Response(<<<<"v", "e">>>>, <<<<"-", "1">>>>, <<>>),
     EmptyResponse}

ApiOutcomes ==
    {Outcome("Ollama API call failed: timeout", EmptyResponse),
     Outcome("Ollama API call failed: connection refused", EmptyResponse)}
    \cup {Outcome("", response) : response \in Responses}

\* the sessions the agents are asked about: before and after a first guess
\* at the target s1mple
AgentSessions ==
    {[guesses |-> <<>>, feedback_history |-> <<>>],
     [guesses |-> <<NiKo>>, feedback_history |-> <<GenerateFeedback(NiKo, s1mple)>>]}

InitAgent ==
    /\ players = ScenarioRoster
    /\ created = TRUE
    /\ target_player = s1mple
    /\ \E asked \in AgentSessions :
          guesses = asked.guesses /\ feedback_history = asked.feedback_history
    /\ max_guesses = 10
    /\ is_won = FALSE
    /\ is_over = FALSE
    /\ result = NoResult
    /\ returned = <<>>
    /\ possible_players \in CandidateLists
    /\ decision_history = <<>>
    /\ games = NoGames
    /\ lists = <<>>

\* InformationTheoryStrategy.make_decision(game_state, possible_players)
InformationTheoryMakeDecision ==
    /\ returned' = <<Call("make_decision", <<>>,
                          InformationTheoryDecision(possible_players))>>
    /\ UNCHANGED <<players, games, lists, created, session, result, possible_players,
                   decision_history>>

\* PopularPlayerStrategy.make_decision(game_state, possible_players)
PopularPlayerMakeDecision ==
    /\ returned' = <<Call("make_decision", <<>>,
                          PopularPlayerDecision(possible_players))>>
    /\ UNCHANGED <<players, games, lists, created, session, result, possible_players,
                   decision_history>>

\* ConstraintStrategy.make_decision(game_state, possible_players)
ConstraintMakeDecision ==
    /\ returned' = <<Call("make_decision", <<>>,
                          ConstraintDecision(feedback_history, possible_players))>>
    /\ UNCHANGED <<players, games, lists, created, session, result, possible_players,
                   decision_history>>

\* RandomStrategy.make_decision(game_state, possible_players)
RandomMakeDecision(choice) ==
    /\ returned' = <<Call("make_decision", <<>>,
                          RandomDecision(possible_players, choice))>>
    /\ UNCHANGED <<players, games, lists, created, session, result, possible_players,
                   decision_history>>

\* InformationTheoryStrategy._calculate_dimension_entropy, as calculate_score
\* calls it for a player of the caller's choice
DimensionEntropy(candidate, dimension) ==
    /\ returned' = <<Call("_calculate_dimension_entropy",
                          [candidate |-> candidate, dimension |-> dimension],
                          CalculateDimensionEntropy(candidate, possible_players,
                                                    dimension))>>
    /\ UNCHANGED <<players, games, lists, created, session, result, possible_players,
                   decision_history>>

NextStrategy ==
    \/ InformationTheoryMakeDecision
    \/ PopularPlayerMakeDecision
    \/ ConstraintMakeDecision
    \/ \E choice \in 1..Max2(1, Len(possible_players)) : RandomMakeDecision(choice)
    \/ \E candidate \in Universe, k \in DOMAIN ScoredDimensions :
          DimensionEntropy(candidate, ScoredDimensions[k])

SpecStrategy == InitAgent /\ [][NextStrategy]_vars

\* OllamaAgent.make_decision(game_state, possible_players), the call of the
\* model ending in  outcome ; the decision is recorded and returned
OllamaMakeDecision(outcome) ==
    /\ Len(decision_history) < MaxDecisions
    /\ \E decision \in {OllamaDecision(outcome, possible_players)} :
          /\ decision_history' = Append(decision_history, decision)
          /\ returned' = <<Call("make_decision", <<>>, decision)>>
    /\ UNCHANGED <<players, games, lists, created, session, result, possible_players>>

\* BaseAgent.reset_decision_history
ResetDecisionHistory ==
    /\ decision_history' = <<>>
    /\ UNCHANGED <<players, games, lists, created, session, result, returned, possible_players>>

NextAgent ==
    \/ \E outcome \in ApiOutcomes : OllamaMakeDecision(outcome)
    \/ ResetDecisionHistory

SpecAgent == InitAgent /\ [][NextAgent]_vars

----------------------------------------------------------------------------
\* The queries of the engine and of the feedback generator, called at any
\* point of a game

\* the rosters of the engines that are queried
QueryRosters == {ScenarioRoster, <<s1mple, veteran>>}

\* models.py: the GameState object handed to a call, as the values it holds
GameState ==
    [target_player |-> target_player, guesses |-> guesses,
     feedback_history |-> feedback_history, max_guesses |-> max_guesses,
     is_won |-> is_won, is_over |-> is_over]

\* models.py: GameState.remaining_guesses
RemainingGuesses == Max2(0, max_guesses - GuessCount)

\* get_game_result
GameResult(difficulty) ==
    [target_player |-> target_player, guesses |-> guesses,
     feedback_history |-> feedback_history, is_won |-> is_won,
     guess_count |-> GuessCount, difficulty |-> difficulty]

\* get_game_stats: the dictionary, its "constraints" key present only when
\* there is a history
GameStats ==
    [guesses_made |-> GuessCount,
     guesses_remaining |-> RemainingGuesses,
     possible_players_count |-> Len(GetPossiblePlayers),
     is_over |-> is_over,
     is_won |-> is_won,
     constraints |-> IF feedback_history # <<>>
                     THEN <<AnalyzeConstraints(feedback_history)>>
                     ELSE <<>>]

InitQuery ==
    /\ players \in QueryRosters
    /\ created = FALSE
    /\ target_player = NoPlayer
    /\ guesses = <<>>
    /\ feedback_history = <<>>
    /\ max_guesses = 0
    /\ is_won = FALSE
    /\ is_over = FALSE
    /\ result = NoResult
    /\ returned = <<>>
    /\ possible_players = <<>>
    /\ decision_history = <<>>
    /\ games = NoGames
    /\ lists = <<>>

\* get_possible_players storing the filtered list as the database's players
GetPossiblePlayersInPlace ==
    /\ created
    /\ returned' = <<Call("get_possible_players", [game_state |-> GameState],
                          GetPossiblePlayers)>>
    /\ players' = GetPossiblePlayers
    /\ UNCHANGED <<created, session, result, possible_players, decision_history,
                   games, lists>>

\* FeedbackGenerator.analyze_constraints(game_state.feedback_history)
AnalyzeConstraintsCall ==
    /\ created
    /\ returned' = <<Call("analyze_constraints",
                          [feedback_history |-> feedback_history],
                          AnalyzeConstraints(feedback_history))>>
    /\ UNCHANGED <<players, games, lists, created, session, result, possible_players,
                   decision_history>>

\* FeedbackGenerator.filter_candidates(players, constraints)
FilterCandidatesCall(constraints) ==
    /\ created
    /\ returned' = <<Call("filter_candidates",
                          [players |-> players, constraints |-> constraints],
                          FilterCandidates(players, constraints))>>
    /\ UNCHANGED <<players, games, lists, created, session, result, possible_players,
                   decision_history>>

\* GameEngine.get_possible_players(game_state)
GetPossiblePlayersCall ==
    /\ created
    /\ returned' = <<Call("get_possible_players", [game_state |-> GameState],
                          GetPossiblePlayers)>>
    /\ UNCHANGED <<players, games, lists, created, session, result, possible_players,
                   decision_history>>

\* GameEngine.get_game_stats(game_state)
GetGameStats ==
    /\ created
    /\ returned' = <<Call("get_game_stats", [game_state |-> GameState],
                          GameStats)>>
    /\ UNCHANGED <<players, games, lists, created, session, result, possible_players,
                   decision_history>>

\* GameEngine.get_game_result(game_state, difficulty)
GetGameResult(difficulty) ==
    /\ created
    /\ returned' = <<Call("get_game_result",
                          [game_state |-> GameState, difficulty |-> difficulty],
                          GameResult(difficulty))>>
    /\ UNCHANGED <<players, games, lists, created, session, result, possible_players,
                   decision_history>>

NextQuery ==
    \/ \E budget \in 1..MaxBudget, i \in DOMAIN players :
          CreateNewGame(budget, players[i])
    \/ \E player_name \in RosterNames \cup OtherNames : MakeGuess(player_name)
    \/ AnalyzeConstraintsCall
    \/ \E constraints \in {InitialConstraints, AnalyzeConstraints(feedback_history)} :
          FilterCandidatesCall(constraints)
    \/ GetPossiblePlayersCall
    \/ GetGameStats
    \/ \E difficulty \in {"medium", "hard"} : GetGameResult(difficulty)

SpecQuery == InitQuery /\ [][NextQuery]_vars

----------------------------------------------------------------------------
\* A game played to its end by a caller who only guesses players that
\* get_possible_players still returns, with a budget of at least the size of
\* the roster

\* the names of the players get_possible_players returns
CandidateNames == {GetPossiblePlayers[i].name : i \in DOMAIN GetPossiblePlayers}

\* make_guess with the name of one of the possible players
GuessCandidate(player_name) ==
    /\ player_name \in CandidateNames
    /\ MakeGuess(player_name)

NextProgress ==
    \/ \E budget \in Len(players)..(Len(players) + 1), i \in DOMAIN players :
          CreateNewGame(budget, players[i])
    \/ \E player_name \in RosterNames : GuessCandidate(player_name)

\* the caller creates a game and goes on guessing while a guess is possible
SpecProgress == Init /\ [][NextProgress]_vars /\ WF_vars(NextProgress)

----------------------------------------------------------------------------
\* Two games of one engine, guessed at in any order

\* the roster of the engine that runs several games
SessionsRoster == <<s1mple, NiKo>>

\* the values a GameState holds, its lists read through their references
GameStateOf(id) ==
    [target_player |-> games[id].target_player,
     guesses |-> lists[games[id].guesses],
     feedback_history |-> lists[games[id].feedback_history],
     max_guesses |-> games[id].max_guesses,
     is_won |-> games[id].is_won,
     is_over |-> games[id].is_over]

InitSessions ==
    /\ players = SessionsRoster
    /\ created = FALSE
    /\ target_player = NoPlayer
    /\ guesses = <<>>
    /\ feedback_history = <<>>
    /\ max_guesses = 0
    /\ is_won = FALSE
    /\ is_over = FALSE
    /\ result = NoResult
    /\ returned = <<>>
    /\ possible_players = <<>>
    /\ decision_history = <<>>
    /\ games = NoGames
    /\ lists = <<>>

\* create_new_game handing every GameState the same two list objects
CreateSessionSharedLists(id, budget, target) ==
    /\ games[id] = NoGame
    /\ lists' = IF lists = <<>> THEN <<<<>>, <<>>>> ELSE lists
    /\ games' = [games EXCEPT ![id] =
                    [target_player |-> target,
                     guesses |-> 1,
                     feedback_history |-> 2,
                     max_guesses |-> budget,
                     is_won |-> FALSE,
                     is_over |-> FALSE]]
    /\ UNCHANGED <<players, created, session, result, returned, possible_players,
                   decision_history>>

\* create_new_game, the GameState kept under id: guesses=[] and
\* feedback_history=[] are two new list objects
CreateSession(id, budget, target) ==
    /\ games[id] = NoGame
    /\ lists' = lists \o <<<<>>, <<>>>>
    /\ games' = [games EXCEPT ![id] =
                    [target_player |-> target,
                     guesses |-> Len(lists) + 1,
                     feedback_history |-> Len(lists) + 2,
                     max_guesses |-> budget,
                     is_won |-> FALSE,
                     is_over |-> FALSE]]
    /\ UNCHANGED <<players, created, session, result, returned, possible_players,
                   decision_history>>

\* make_guess(game_state, player_name) on the GameState kept under id
SessionMakeGuess(id, player_name) ==
    LET game_state == games[id]
        guessed_player == players[GetPlayerByName(player_name)]
        feedback == GenerateFeedback(guessed_player, game_state.target_player)
        similar_players == SearchPlayers(player_name, 5)
    IN /\ game_state # NoGame
       /\ IF game_state.is_over
          THEN /\ result' = [success |-> FALSE,
                             message |-> Message("already_over", <<>>, <<>>)]
               /\ UNCHANGED <<games, lists>>
          ELSE IF GetPlayerByName(player_name) = 0
          THEN /\ result' =
                    [success |-> FALSE,
                     message |->
                        IF similar_players # <<>>
                        THEN Message("not_found_did_you_mean",
                                     <<player_name>> \o
                                        [i \in DOMAIN similar_players |->
                                            similar_players[i].name],
                                     <<>>)
                        ELSE Message("not_found_in_database", <<player_name>>, <<>>)]
               /\ UNCHANGED <<games, lists>>
          ELSE /\ lists' =
                    [lists EXCEPT
                        ![game_state.guesses] = Append(@, guessed_player),
                        ![game_state.feedback_history] = Append(@, feedback)]
               /\ games' =
                    [games EXCEPT ![id] =
                        IF feedback.is_correct
                        THEN [@ EXCEPT !.is_won = TRUE, !.is_over = TRUE]
                        ELSE IF Len(lists'[game_state.guesses])
                                    >= game_state.max_guesses
                        THEN [@ EXCEPT !.is_over = TRUE]
                        ELSE @]
               /\ result' =
                    [success |-> TRUE,
                     message |->
                        IF feedback.is_correct
                        THEN Message("congratulations",
                                     <<game_state.target_player.name>>,
                                     <<Len(lists'[game_state.guesses])>>)
                        ELSE IF games'[id].is_over
                        THEN Message("game_over",
                                     <<game_state.target_player.name>>, <<>>)
                        ELSE Message("guesses_remaining", <<>>,
                                <<Len(lists'[game_state.guesses]),
                                  game_state.max_guesses,
                                  Max2(0, game_state.max_guesses
                                            - Len(lists'[game_state.guesses]))>>)]
       /\ UNCHANGED <<players, created, session, returned, possible_players,
                      decision_history>>

NextSessions ==
    \/ \E id \in SessionIds, budget \in 1..MaxBudget, i \in DOMAIN players :
          CreateSession(id, budget, players[i])
    \/ \E id \in SessionIds, player_name \in RosterNames \cup {<<"q">>} :
          SessionMakeGuess(id, player_name)

SpecSessions == InitSessions /\ [][NextSessions]_vars

----------------------------------------------------------------------------
\* Properties

Last(seq) == seq[Len(seq)]

\* a step of make_guess that was accepted: it appended a guess
Accepted == created /\ ~is_over /\ Len(guesses') = Len(guesses) + 1

\* no player of the roster has this name, ignoring case
Unresolved(name) == \A i \in DOMAIN players : Lower(players[i].name) # Lower(name)

\* C1: soundness -- after every accepted guess the target is among
\* filter_candidates(roster, analyze_constraints(feedback_history)), whatever
\* non-negative age and major_appearances it has.
C1_TargetSurvives ==
    (created /\ feedback_history # <<>>) =>
        target_player \in
            Range(FilterCandidates(players, AnalyzeConstraints(feedback_history)))

\* C2: once the session is over, a make_guess call returns success = False and
\* changes no field of the session; with budget 1 a wrong first guess ends the
\* session as lost with exactly one guess.
C2_TerminalRejects ==
    [][/\ is_over => (UNCHANGED session /\ ~result'.success)
       /\ (Accepted /\ max_guesses = 1 /\ guesses = <<>>
             /\ guesses'[1] # target_player)
            => (is_over' /\ ~is_won' /\ Len(guesses') = 1)]_vars

C2_Witness ==
    /\ is_over /\ ~is_won /\ max_guesses = 1 /\ Len(guesses) = 1
    /\ result.message.kind = "already_over"

C4_TargetGuessWins ==
    [][(Accepted /\ Last(guesses') = target_player) => (is_won' /\ is_over')]_vars

C4_Witness ==
    /\ is_won /\ is_over /\ max_guesses >= 2 /\ Len(guesses) = max_guesses
    /\ Last(guesses) = target_player

\* C5: after an accepted non-winning guess the session is lost exactly when the
\* number of accepted guesses equals the budget; below the budget and without
\* a win it stays in progress.
C5_LostExactlyAtBudget ==
    [][(Accepted /\ ~Last(feedback_history').is_correct) =>
          /\ (is_over' /\ ~is_won') <=> (Len(guesses') = max_guesses)
          /\ Len(guesses') < max_guesses => ~is_over']_vars

\* C6: the number of accepted guesses never exceeds max_guesses, for every
\* max_guesses create_new_game accepts, 0 included.
C6_BudgetEnforced == created => GuessCount <= max_guesses

\* C7: an accepted guess never enlarges the candidate list: the list
\* get_possible_players returns after it is a sublist of the one before it.
C7_FilterMonotone ==
    [][Accepted =>
         \A before \in {GetPossiblePlayers} : \A after \in {GetPossiblePlayers'} :
            /\ Len(after) <= Len(before)
            /\ after = SelectSeq(before, LAMBDA p : \E k \in DOMAIN after : after[k] = p)]_vars

C7_Witness ==
    /\ Len(guesses) = 2 /\ ~is_won
    /\ Len(GetPossiblePlayers) <
         Len(FilterCandidates(players, AnalyzeConstraints(SubSeq(feedback_history, 1, 1))))
    /\ Len(FilterCandidates(players, AnalyzeConstraints(SubSeq(feedback_history, 1, 1))))
         < Len(players)

\* C8: analyze_constraints returns the same constraint set for every
\* reordering of a history of GuessFeedback values.
C8_OrderIndependent ==
    returned # <<>> =>
        \A history \in Reorderings(feedback_history) :
            AnalyzeConstraints(history) = returned[1]

\* C9: feedback of a player against itself is Correct on all six dimensions
\* with is_correct true, and is_correct is true exactly when all six verdicts
\* are Correct, that is when the six field values are pairwise equal.
C9_CorrectIffAllEqual ==
    \A i \in DOMAIN feedback_history :
        LET fb == feedback_history[i]
            allCorrect == \A d \in Dimensions :
                             fb.dimension_feedback[d].feedback_type = CORRECT
            allEqual == \A d \in Dimensions :
                           GetDimensionValue(fb.guess_player, d) =
                           GetDimensionValue(fb.target_player, d)
        IN /\ fb.guess_player = fb.target_player => (allCorrect /\ fb.is_correct)
           /\ fb.is_correct <=> allCorrect
           /\ fb.is_correct <=> allEqual

C9_Witness ==
    /\ Len(feedback_history) = 2
    /\ ~feedback_history[1].is_correct
    /\ \E d \in Dimensions :
          feedback_history[1].dimension_feedback[d].feedback_type = CORRECT
    /\ feedback_history[2].is_correct
    /\ feedback_history[2].guess_player = feedback_history[2].target_player

\* C10: per dimension the verdict is Correct on equal values, otherwise on age
\* and major_appearances HIGHER when guess < target and LOWER when guess >
\* target, and WRONG on name, team, nationality and role.
C10_VerdictTable ==
    \A i \in DOMAIN feedback_history : \A d \in Dimensions :
        LET g == GetDimensionValue(guesses[i], d)
            t == GetDimensionValue(target_player, d)
            verdict == feedback_history[i].dimension_feedback[d].feedback_type
        IN /\ g = t => verdict = CORRECT
           /\ (g # t /\ d \in {"age", "major_appearances"}) =>
                 /\ g < t => verdict = HIGHER
                 /\ g > t => verdict = LOWER
           /\ (g # t /\ d \in {"name", "team", "nationality", "role"}) =>
                 verdict = WRONG
           /\ d \in {"age", "major_appearances"} => verdict # WRONG
           /\ d \in {"name", "team", "nationality", "role"} =>
                 verdict \notin {HIGHER, LOWER}

C10_Witness ==
    \E i \in DOMAIN feedback_history :
        LET df == feedback_history[i].dimension_feedback
        IN /\ df["age"].feedback_type = HIGHER
           /\ df["major_appearances"].feedback_type = LOWER
           /\ df["team"].feedback_type = WRONG
           /\ \E j \in DOMAIN feedback_history :
                 feedback_history[j].dimension_feedback["role"].feedback_type = CORRECT

\* C11: on age and major_appearances, when the two values differ, exactly one
\* of HIGHER and LOWER is given, and exchanging guess and target exchanges
\* the two.
C11_SwapFlips ==
    \A i \in DOMAIN feedback_history : \A d \in {"age", "major_appearances"} :
        LET fb == feedback_history[i]
            there == fb.dimension_feedback[d].feedback_type
            back == GenerateFeedback(fb.target_player, fb.guess_player)
                        .dimension_feedback[d].feedback_type
        IN GetDimensionValue(fb.guess_player, d) # GetDimensionValue(fb.target_player, d)
             => /\ there \in {HIGHER, LOWER}
                /\ back \in {HIGHER, LOWER}
                /\ there = HIGHER <=> back = LOWER
                /\ there = LOWER <=> back = HIGHER

C11_Witness ==
    \E i \in DOMAIN feedback_history :
        LET fb == feedback_history[i]
        IN /\ fb.dimension_feedback["age"].feedback_type = HIGHER
           /\ fb.dimension_feedback["major_appearances"].feedback_type = LOWER
           /\ GenerateFeedback(fb.target_player, fb.guess_player)
                 .dimension_feedback["age"].feedback_type = LOWER

\* C12: with all feedback generated against the one target of the session,
\* whatever its age and major_appearances, the folded constraints have
\* min <= max on age and on major_appearances.
C12_MinAtMostMax ==
    created =>
        \A folded \in {AnalyzeConstraints(feedback_history)} :
            /\ folded["age"].min <= folded["age"].max
            /\ folded["major_appearances"].min <= folded["major_appearances"].max

\* C13: analyze_constraints never returns a constraint set in which min > max
\* on age or major_appearances: such a fold is reported as a contradiction.
C13_ContradictionReported ==
    returned # <<>> =>
        /\ returned[1]["age"].min <= returned[1]["age"].max
        /\ returned[1]["major_appearances"].min <= returned[1]["major_appearances"].max

\* two Correct verdicts of the history on one dimension carry different values
ConflictingRequired(history) ==
    \E i, j \in DOMAIN history : \E d \in Dimensions :
        /\ history[i].dimension_feedback[d].feedback_type = CORRECT
        /\ history[j].dimension_feedback[d].feedback_type = CORRECT
        /\ history[i].dimension_feedback[d].target_value #
             history[j].dimension_feedback[d].target_value

\* C14: analyze_constraints never returns a constraint set for a history with
\* two Correct verdicts of different values on one dimension: it reports the
\* contradiction and keeps neither value as required.
C14_ConflictReported == returned # <<>> => ~ConflictingRequired(feedback_history)

\* a player meets a constraint set: on every dimension its value is the
\* required one if there is one, is not excluded and, on age and
\* major_appearances, lies within min..max
Meets(player, cs) ==
    /\ \A d \in Dimensions :
          /\ cs[d].required # <<>> => GetDimensionValue(player, d) = cs[d].required[1]
          /\ GetDimensionValue(player, d) \notin cs[d].excluded
    /\ player.age \in cs["age"].min .. cs["age"].max
    /\ player.major_appearances \in
          cs["major_appearances"].min .. cs["major_appearances"].max

\* the place of a player in the roster
RosterIndex(player) == CHOOSE i \in DOMAIN players : players[i] = player

\* C15: filter_candidates returns exactly the roster players that meet the
\* constraint set, in roster order, each once, and nobody from outside.
C15_FilterExact ==
    \A cs \in {AnalyzeConstraints(feedback_history)} :
      \A kept \in {FilterCandidates(players, cs)} :
        /\ \A i \in DOMAIN kept :
              \E j \in DOMAIN players : players[j] = kept[i] /\ Meets(kept[i], cs)
        /\ \A j \in DOMAIN players :
              Meets(players[j], cs) => \E i \in DOMAIN kept : kept[i] = players[j]
        /\ \A i1, i2 \in DOMAIN kept :
              i1 < i2 => RosterIndex(kept[i1]) < RosterIndex(kept[i2])

C15_Witness ==
    /\ Len(feedback_history) >= 1
    /\ \E kept \in {FilterCandidates(players, AnalyzeConstraints(feedback_history))} :
          /\ Len(kept) >= 1
          /\ Len(kept) < Len(players)
          /\ \E i \in DOMAIN kept :
                kept[i].age = AnalyzeConstraints(feedback_history)["age"].min

\* the decision a make_decision call has just returned, if any
ReturnedDecisions ==
    {returned[i].value : i \in {j \in DOMAIN returned : returned[j].call = "make_decision"}}

\* the reasoning texts that say no candidates are available
NoCandidatesTexts ==
    {"No possible players available for information gain calculation",
     "No players satisfy the current constraints",
     "No possible players available"}

\* C16: every strategy invoked with an empty candidate list returns a
\* decision whose confidence is 0 and whose rationale states that no
\* candidates are available.
C16_EmptyFallback ==
    possible_players = <<>> =>
        \A decision \in ReturnedDecisions :
            /\ decision.confidence = 0
            /\ decision.reasoning.text \in NoCandidatesTexts

\* C17: every decision returned by make_decision, the one parsed from a
\* response of the model included, has a confidence within [0, 1].
C17_ConfidenceInUnit ==
    \A decision \in ReturnedDecisions :
        0 <= decision.confidence /\ decision.confidence <= Unit

\* the least member of a non-empty set of indices
Least(S) == CHOOSE i \in S : \A j \in S : i <= j

\* the name the model answered with, blanks around it removed
AnsweredName(decision) ==
    Strip(PlayerGroup(decision.metadata.raw_response.player[1]))

\* C18: with a non-empty candidate list the agent's decision names a member
\* of the list: the answered name when it is exactly a candidate's name,
\* otherwise the first candidate equal to it ignoring case, otherwise the
\* first candidate in a substring relation with it, otherwise the first one.
C18_NamesACandidate ==
    possible_players # <<>> =>
        \A k \in DOMAIN decision_history :
            LET decision == decision_history[k]
                names == [i \in DOMAIN possible_players |-> possible_players[i].name]
            IN /\ decision.player_name \in Range(names)
               /\ decision.strategy_used = "Ollama-LLM" =>
                    LET answered == AnsweredName(decision)
                        same == {i \in DOMAIN names : Lower(names[i]) = Lower(answered)}
                        related ==
                            {i \in DOMAIN names :
                                \/ IsSubstring(Lower(answered), Lower(names[i]))
                                \/ IsSubstring(Lower(names[i]), Lower(answered))}
                    IN decision.player_name =
                            IF answered \in Range(names) THEN answered
                            ELSE IF same # {} THEN names[Least(same)]
                            ELSE IF related # {} THEN names[Least(related)]
                            ELSE names[1]

\* the agent answered with a part of the second candidate's name, which is
\* no candidate's name in any case, and the second candidate was chosen
C18_Witness ==
    /\ Len(possible_players) >= 2
    /\ \E k \in DOMAIN decision_history :
          LET decision == decision_history[k]
          IN /\ decision.strategy_used = "Ollama-LLM"
             /\ \A i \in DOMAIN possible_players :
                    Lower(possible_players[i].name) # Lower(AnsweredName(decision))
             /\ decision.player_name = possible_players[2].name
             /\ decision.player_name # possible_players[1].name

\* the call of the model failed or its response cannot be parsed
Failed(outcome) == outcome.error # "" \/ ParseError(outcome.response) # ""

\* C19: the agent's make_decision always returns a decision; when the call
\* fails or times out or the response cannot be parsed it is the local
\* fallback: the candidate with most major_appearances at confidence 0.3, or
\* 'unknown' at confidence 0 when there are no candidates.
C19_AlwaysDecides ==
    [][\A outcome \in ApiOutcomes :
          OllamaMakeDecision(outcome) =>
            /\ Len(returned') = 1
            /\ returned'[1].call = "make_decision"
            /\ Last(decision_history') = returned'[1].value
            /\ Failed(outcome) =>
                 LET decision == returned'[1].value
                 IN IF possible_players = <<>>
                    THEN decision.player_name = UnknownName /\ decision.confidence = 0
                    ELSE /\ decision.confidence = (3 * Unit) \div 10
                         /\ \E i \in DOMAIN possible_players :
                               /\ decision.player_name = possible_players[i].name
                               /\ \A j \in DOMAIN possible_players :
                                     possible_players[j].major_appearances
                                        <= possible_players[i].major_appearances]_vars

\* a response whose confidence is no number made the agent fall back on the
\* second candidate, who has more major appearances than the first
C19_Witness ==
    /\ Len(possible_players) >= 2
    /\ possible_players[1].major_appearances < possible_players[2].major_appearances
    /\ \E decision \in ReturnedDecisions :
          /\ decision.strategy_used = "Fallback-Heuristic"
          /\ decision.metadata.error = "could not convert string to float"
          /\ decision.player_name = possible_players[2].name
          /\ decision.confidence = (3 * Unit) \div 10

\* the entropy calls that have just returned: player, dimension and entropy
ReturnedEntropies ==
    {returned[i] : i \in {j \in DOMAIN returned :
                            returned[j].call = "_calculate_dimension_entropy"}}

\* how many of the possible players have this relation to the value
SharedBy(value, dimension) ==
    Cardinality({i \in DOMAIN possible_players :
                    GetDimensionValue(possible_players[i], dimension) = value})
Below(value, dimension) ==
    Cardinality({i \in DOMAIN possible_players :
                    GetDimensionValue(possible_players[i], dimension) < value})
Above(value, dimension) ==
    Cardinality({i \in DOMAIN possible_players :
                    GetDimensionValue(possible_players[i], dimension) > value})

\* C20 as stated: for every player, candidate list and scored dimension the
\* dimension entropy is 0 if and only if the player's value is shared by
\* all candidates or by none of them.
C20_ZeroIffAllOrNone ==
    \A e \in ReturnedEntropies :
        LET shared == SharedBy(GetDimensionValue(e.args.candidate, e.args.dimension), e.args.dimension)
        IN e.value = 0 <=> (shared = Len(possible_players) \/ shared = 0)

\* C20, amended: for a player of the candidate list the dimension entropy
\* is 0 if and only if all candidates share the player's value; for any
\* player it is 0 on team, nationality and role if and only if all or none
\* share the value, and on age and major_appearances if and only if all
\* candidates lie on one side: all below, all equal or all above the value.
C20_ZeroIffOneBucket ==
    \A e \in ReturnedEntropies :
        LET dimension == e.args.dimension
            value == GetDimensionValue(e.args.candidate, dimension)
            total == Len(possible_players)
            shared == SharedBy(value, dimension)
        IN /\ e.args.candidate \in Range(possible_players) =>
                (e.value = 0 <=> shared = total)
           /\ dimension \in {"team", "nationality", "role"} =>
                (e.value = 0 <=> (shared = total \/ shared = 0))
           /\ dimension \in {"age", "major_appearances"} =>
                (e.value = 0 <=> \/ shared = total
                                 \/ Below(value, dimension) = total
                                 \/ Above(value, dimension) = total)

\* a player outside the list whose age no candidate shares, with one
\* candidate younger and one older: the entropy is one bit
C20_Witness ==
    \E e \in ReturnedEntropies :
        /\ e.args.dimension = "age"
        /\ e.args.candidate \notin Range(possible_players)
        /\ SharedBy(e.args.candidate.age, "age") = 0
        /\ Below(e.args.candidate.age, "age") = 1
        /\ Above(e.args.candidate.age, "age") = 1
        /\ e.value = Unit

\* the verdicts of one kind a history holds on one dimension
Verdicts(history, dimension, feedback_type) ==
    {history[i].dimension_feedback[dimension] :
        i \in {j \in DOMAIN history :
                history[j].dimension_feedback[dimension].feedback_type = feedback_type}}

\* C22: after folding a history that contains a Correct verdict with value v
\* on age or major_appearances, that dimension has min = max = v.
C22_CorrectPinsRange ==
    returned # <<>> =>
        \A d \in numeric_dimensions :
            \A verdict \in Verdicts(feedback_history, d, CORRECT) :
                /\ returned[1][d].min = verdict.guess_value
                /\ returned[1][d].max = verdict.guess_value

\* the greatest and the least member of a non-empty set of integers
Greatest(S) == CHOOSE x \in S : \A y \in S : y <= x
Smallest(S) == CHOOSE x \in S : \A y \in S : x <= y

\* C23: for each numeric dimension analyze_constraints returns min equal to
\* the maximum of the initial lower bound (age 16, majors 0) and
\* guess_value + 1 over the TooLow verdicts, and max equal to the minimum of
\* the initial upper bound (age 40, majors 20) and guess_value - 1 over the
\* TooHigh verdicts.
C23_BoundsAreExtremes ==
    returned # <<>> =>
        \A d \in numeric_dimensions :
            LET lower == IF d = "age" THEN 16 ELSE 0
                upper == IF d = "age" THEN 40 ELSE 20
            IN /\ returned[1][d].min =
                    Greatest({lower} \cup
                        {verdict.guess_value + 1 :
                            verdict \in Verdicts(feedback_history, d, HIGHER)})
               /\ returned[1][d].max =
                    Smallest({upper} \cup
                        {verdict.guess_value - 1 :
                            verdict \in Verdicts(feedback_history, d, LOWER)})

\* two TooLow verdicts on age, the first with the older guess: min comes from
\* the first, not from the last
C23_Witness ==
    /\ returned # <<>>
    /\ Len(feedback_history) = 2
    /\ \A i \in 1..2 :
          feedback_history[i].dimension_feedback["age"].feedback_type = HIGHER
    /\ feedback_history[1].dimension_feedback["age"].guess_value
          > feedback_history[2].dimension_feedback["age"].guess_value
    /\ returned[1]["age"].min
          = feedback_history[1].dimension_feedback["age"].guess_value + 1
    /\ returned[1]["age"].min > 16

\* C24: for each categorical dimension the excluded set returned by
\* analyze_constraints is exactly the set of guessed values with a Wrong
\* verdict on that dimension; when all feedback comes from one target it
\* never contains the target's value.
C24_ExcludedAreWrongGuesses ==
    returned # <<>> =>
        \A d \in categorical_dimensions :
            /\ returned[1][d].excluded =
                    {verdict.guess_value : verdict \in Verdicts(feedback_history, d, WRONG)}
            /\ \A target \in {feedback_history[i].target_player : i \in DOMAIN feedback_history} :
                    (\A i \in DOMAIN feedback_history :
                        feedback_history[i].target_player = target)
                    => GetDimensionValue(target, d) \notin returned[1][d].excluded

\* two guesses at one target with two different wrong roles: both roles are
\* excluded and the target's role is not
C24_Witness ==
    /\ returned # <<>>
    /\ Len(feedback_history) = 2
    /\ feedback_history[1].target_player = feedback_history[2].target_player
    /\ Cardinality(returned[1]["role"].excluded) = 2
    /\ feedback_history[1].target_player.role \notin returned[1]["role"].excluded

\* C25: along one session, the fold of the history after an accepted guess
\* only tightens the fold before it: a required value already present stays
\* the same, every excluded set keeps its members, min does not fall and max
\* does not rise.
C25_ConstraintsMonotone ==
    [][Accepted =>
         \A before \in {AnalyzeConstraints(feedback_history)} :
         \A after \in {AnalyzeConstraints(feedback_history')} :
            \A d \in Dimensions :
               /\ before[d].required # <<>>
                     => after[d].required = before[d].required
               /\ before[d].excluded \subseteq after[d].excluded
               /\ d \in numeric_dimensions
                     => /\ after[d].min >= before[d].min
                        /\ after[d].max <= before[d].max]_vars

\* two accepted guesses, the first leaving a required value and a raised
\* min, the second guess younger than the first and still below the target
C25_Witness ==
    /\ Len(feedback_history) = 2
    /\ \A before \in {AnalyzeConstraints(SubSeq(feedback_history, 1, 1))} :
       \A after \in {AnalyzeConstraints(feedback_history)} :
          /\ \E d \in Dimensions : before[d].required # <<>>
          /\ before["age"].min > AgeMin
          /\ guesses[2].age < guesses[1].age
          /\ after["age"].min = before["age"].min
          /\ \E d \in Dimensions : before[d].excluded # after[d].excluded

\* C26: for every history of a session, the empty one included,
\* get_possible_players returns filter_candidates(roster,
\* analyze_constraints(feedback_history)), in roster order.
C26_PossibleIsFilterOfFold ==
    created =>
        GetPossiblePlayers
            = FilterCandidates(players, AnalyzeConstraints(feedback_history))

\* every dimension of a feedback is a CORRECT one
AllCorrect(feedback) ==
    \A d \in Dimensions : feedback.dimension_feedback[d].feedback_type = CORRECT

\* the state part of C30
SessionInvariant ==
    /\ Len(guesses) = Len(feedback_history)
    /\ \A i \in DOMAIN feedback_history :
          feedback_history[i] = GenerateFeedback(guesses[i], target_player)
    /\ is_won => is_over
    /\ is_won <=> /\ feedback_history # <<>>
                  /\ AllCorrect(Last(feedback_history))
    /\ \A i \in DOMAIN feedback_history :
          i < Len(feedback_history) => ~AllCorrect(feedback_history[i])

\* C30: in every reachable session state guesses and feedback_history have
\* the same length, the i-th feedback is the comparison of the i-th guess
\* against the target, is_won implies is_over, is_won holds exactly when the
\* last feedback is all CORRECT and no earlier feedback is; the target of a
\* created session never changes.
C30_SessionInvariants ==
    /\ []SessionInvariant
    /\ [][created => target_player' = target_player]_vars

\* a session won on its second guess
C30_Witness ==
    /\ created
    /\ is_won
    /\ Len(guesses) = 2
    /\ guesses[1] # target_player
    /\ guesses[2] = target_player

\* the decisions of the entropy strategy among those returned
EntropyDecisions ==
    {decision \in ReturnedDecisions : decision.strategy_used = "Information-Theory"}

\* C27: with a non-empty candidate list the entropy strategy names a
\* candidate whose score no other candidate's exceeds, and of the candidates
\* with that score the one that comes first in the list.
C27_HighestScoreFirstOnTies ==
    possible_players # <<>> =>
        \A decision \in EntropyDecisions :
            \E i \in DOMAIN possible_players :
                LET score(k) ==
                        InformationTheoryCalculateScore(possible_players[k],
                                                        possible_players)
                IN /\ decision.player_name = possible_players[i].name
                   /\ decision.metadata.information_gain = score(i)
                   /\ \A j \in DOMAIN possible_players : score(j) <= score(i)
                   /\ \A j \in 1..(i - 1) : score(j) < score(i)

\* the entropy strategy passing over the first of three candidates for a
\* second one with a higher score
C27_Witness ==
    /\ Len(possible_players) = 3
    /\ \E decision \in EntropyDecisions :
          /\ decision.player_name = possible_players[2].name
          /\ InformationTheoryCalculateScore(possible_players[1], possible_players)
                < InformationTheoryCalculateScore(possible_players[2], possible_players)
          /\ InformationTheoryCalculateScore(possible_players[3], possible_players)
                < InformationTheoryCalculateScore(possible_players[2], possible_players)

\* the operations that only read
QueryCalls ==
    {"analyze_constraints", "filter_candidates", "get_possible_players",
     "get_game_stats", "get_game_result"}

\* the call that has just returned is the call before it made again, and it
\* returned the same
SameCall ==
    /\ returned # <<>>
    /\ returned[1].call = returned'[1].call
    /\ returned[1].args = returned'[1].args
Repeated == SameCall /\ returned[1].value = returned'[1].value

\* C28: a call of analyze_constraints, filter_candidates,
\* get_possible_players, get_game_stats or get_game_result leaves the session
\* and the roster as they were, and a call with the arguments of the call
\* before it returns what that call returned; the guesses that follow
\* therefore see the state they would have seen without the call.
C28_QueriesLeaveStateAndRepeat ==
    [][(returned' # <<>> /\ returned'[1].call \in QueryCalls) =>
          /\ ~Repeated => UNCHANGED <<session, players>>
          /\ SameCall => returned'[1].value = returned[1].value]_vars

\* a game won on its second guess, with get_game_stats called between the
\* first guess and the second
C28_Witness ==
    /\ returned # <<>>
    /\ returned[1].call = "get_game_stats"
    /\ Len(returned[1].args.game_state.guesses) = 1
    /\ returned[1].value.possible_players_count < Len(players)
    /\ Len(guesses) = 2
    /\ is_won

\* C29: when every guess names one of the possible players and the budget is
\* at least the size of the roster, there is a possible player as long as
\* the game is in progress, the game is won in the end, and it takes at most
\* as many accepted guesses as the roster has players.
C29_CandidatesLeadToWin ==
    /\ [](created /\ ~is_over => GetPossiblePlayers # <<>>)
    /\ [](Len(guesses) <= Len(players))
    /\ <>is_won

\* C21: a make_guess on one game, accepted or not, leaves the target, the
\* guesses, the feedback_history, is_won and is_over of every other game of
\* the engine as they were, in whatever order the games are guessed at.
C21_SessionsIndependent ==
    [][\A id \in SessionIds, player_name \in RosterNames \cup {<<"q">>} :
          SessionMakeGuess(id, player_name) =>
             \A other \in SessionIds \ {id} :
                games[other] # NoGame =>
                    /\ games'[other] # NoGame
                    /\ GameStateOf(other)' = GameStateOf(other)]_vars

\* two games with different targets, each with a guess of its own: one won
\* at its first guess, the other still in progress
C21_Witness ==
    /\ games["a"] # NoGame
    /\ games["b"] # NoGame
    /\ games["a"].target_player # games["b"].target_player
    /\ Len(GameStateOf("a").guesses) = 1
    /\ Len(GameStateOf("b").guesses) = 1
    /\ GameStateOf("a").guesses = GameStateOf("b").guesses
    /\ GameStateOf("a").is_won
    /\ ~GameStateOf("b").is_over

====
